---- MODULE Spec2Model ----
(***************************************************************************)
(* Model of the upgrade-test tool: the upgrade path orchestrator           *)
(* (cmd/upgrade_command.go) driving the operatorhub reconciler             *)
(* (pkg/operator/operatorhub) against a cluster whose lifecycle manager    *)
(* reconciles asynchronously.                                              *)
(***************************************************************************)
EXTENDS Integers, Sequences, FiniteSets, TLC

(* ---------------------------- bounds ---------------------------------- *)
NumPaths == 2
PathLen == 2
MaxPolls == 2
MaxPrepares == 3
MaxLen == 3

(* ------------------------ program constants --------------------------- *)
MaxAttempts == 3

Paths == 1..NumPaths
Tags == 1..PathLen
(* a version creates at most one Subscription, a Subscription gets one plan *)
PlanIds == 1..(NumPaths * PathLen)

(* config: every path lists the bundle tags 1..PathLen in order *)
BundleVersion(p, i) == i

(* status.version the lifecycle manager publishes for a tag; <<>> is "" *)
CSVOf(t) == <<t>>
CSVNames == {CSVOf(t) : t \in Tags}

VARIABLES
    (* cluster *)
    artifact,      \* the Artifact (bundle descriptor) exists
    av,            \* tag -> "absent" | "Pending" | "Present" | "PresentNoVersion"
    pm,            \* PackageManifest: [exists, entries]
    ns,            \* the target namespace exists
    sub,           \* the Subscription named o.name: [state, csv, plan]
    plans,         \* InstallPlan id -> "absent" | "unapproved" | "approved"
    csvs,          \* CSV name -> "absent" | "Pending" | "Succeeded" | "terminating"
    (* tool *)
    immediate,     \* cfg.Immediate
    cancelled,     \* the context passed to the reconciler is done
    cancelAt,      \* pc, path, idx and the counts of the version when the context was cancelled
    pc,            \* position of the single control flow
    path,          \* index of the path being processed
    idx,           \* index of the version inside the path (1 = first)
    csv,           \* installed-version identifier read from the ArtifactVersion
    planName,      \* install-plan id read from the Subscription (0 = none)
    attempt,       \* createSubscription loop counter
    polls,         \* condition evaluations that said "not yet" in the current wait
    exit,          \* "running" | "ok" | "error": what Execute returned
    (* history *)
    stages,        \* lifecycle stages truly reached for the current version
    createCalls,   \* Subscription Create calls issued for the current version
    sleeps,        \* backoff sleeps (seconds) of the current createSubscription
    goneSeen,      \* kinds whose Get truly returned not-found after the delete
    delOut,        \* kind -> outcome of the Delete call for the current version
    calls,         \* mutating calls issued for the current version
    createdOver,   \* a Subscription Create was issued while one existed
    errSite,       \* [fn, cause] of the failure of the current version
    failedCalls,   \* <<operation, kind>> of the cluster calls of the current version that failed
    tests,         \* <<path, idx>> of every test invocation, in order
    lastTest,      \* [path, idx, explicit, cmd, ok] of the last test invocation
    pathResult,    \* path -> "none" | "ok" | "failed"
    log,           \* <<event, path, idx>> of every call and return of process, in order
    (* the PrepareOperator flow of pkg/operator (bundle image references) *)
    artifactSpec,      \* the Artifact: "absent" | "same" | "other" registry/repository
    artifactVersion,   \* the ArtifactVersion: [state, phase, status, gen]
    ppc,               \* position of PrepareOperator
    prepares,          \* PrepareOperator calls started
    ppolls,            \* "not yet" passes of the current wait loop of PrepareOperator
    existing,          \* [phase, status] of the record found before its deletion
    recreated,         \* this call deleted a record and created it again
    seenGen,           \* incarnation on which this call's wait truly saw Present
    artifactWrites,    \* [found, ops]: the Artifact as it was when CreateArtifact got it,
                       \* and the writes CreateArtifact issued, in order
    (* the source build flow of cmd/upgrade.go and pkg/git *)
    gitcfg,            \* cfg.Git / cfg.Cleanup: [repository, username, password, cleanup], TRUE = set
    rawDir,            \* the baseDir argument of NewGitManager
    baseDir,           \* GitManager.baseDir
    bver,              \* the current version: [name, revision, buildCommand], TRUE = not empty
    cloneDir,          \* the clone directory of the current version ("" when none)
    bidx,              \* index of the current version of the path (0 = none)
    bpc,               \* position of processUpgrade
    staging,           \* version -> <<command, ok>> of the commands its cloneRepository ran
    target,            \* version -> content of its clone directory
    remoteURL,         \* the URL given to git remote add: "none" | "plain" | "withCredentials"
    bcalls,            \* <<operation, version>> of every pipeline call, in order
    deferred,          \* versions whose Cleanup is deferred to the return of processUpgrade
    bresult,           \* "none" | "ok" | "error": what processUpgrade returns
    (* the kubeconfig of cmd/upgrade_command.go *)
    kube               \* [pc, kubeconfig, env, home, loaded, child]: uc.kubeconfig, KUBECONFIG and
                       \* HOME of the process, the path loaded, KUBECONFIG of the test subprocess

prep == <<artifactSpec, artifactVersion, ppc, prepares, ppolls, existing, recreated, seenGen,
          artifactWrites>>

build == <<gitcfg, rawDir, baseDir, bver, cloneDir, bidx, bpc, staging, target, remoteURL,
           bcalls, deferred, bresult>>

cluster == <<artifact, av, pm, ns, sub, plans, csvs>>
static == <<immediate, cancelled, cancelAt, prep, build, kube>>
ctl == <<static, pc, path, idx, exit>>
locals == <<csv, planName, attempt, polls>>
verHist == <<stages, createCalls, sleeps, goneSeen, delOut, calls, createdOver, errSite,
             failedCalls>>
runHist == <<tests, lastTest, pathResult, log>>
vars == <<cluster, ctl, locals, verHist, runHist>>

NoSub == [state |-> "absent", csv |-> <<>>, plan |-> 0]
NoErr == [fn |-> "", cause |-> ""]
NoCancel == [pc |-> "", path |-> 0, idx |-> 0, polls |-> 0, stages |-> <<>>, calls |-> {},
             attempt |-> 0, createCalls |-> 0]
NoTest == [path |-> 0, idx |-> 0, explicit |-> "", cmd |-> "", ok |-> TRUE]
Kinds == {"subscription", "csv"}

StageOrder == <<"Requested", "Present", "Catalog", "Subscribed", "PlanNamed", "Approved", "Succeeded">>

IsPrefix(s, t) == Len(s) <= Len(t) /\ \A k \in 1..Len(s) : s[k] = t[k]

(* strings.Contains(s, substr) on names as sequences *)
Contains(s, substr) ==
    \E k \in 0..(Len(s) - Len(substr)) :
        \A j \in 1..Len(substr) : s[k + j] = substr[j]

FreshVersion ==
    /\ stages' = <<>>
    /\ createCalls' = 0
    /\ sleeps' = <<>>
    /\ goneSeen' = {}
    /\ delOut' = [k \in Kinds |-> "none"]
    /\ calls' = {}
    /\ createdOver' = FALSE
    /\ failedCalls' = {}
    /\ errSite' = NoErr
    /\ csv' = <<>>
    /\ planName' = 0
    /\ attempt' = 0
    /\ polls' = 0

NoVersion == [state |-> "absent", phase |-> "", status |-> "", gen |-> 0]
NoObject == [phase |-> "", status |-> ""]
(* what a Get returns of a record: its status *)
Object(rec) == [phase |-> rec.phase, status |-> rec.status]

(* CreateArtifact has not run in this call *)
NoWrites == [found |-> "", ops |-> <<>>]

PrepIdle ==
    /\ artifactSpec = "absent"
    /\ artifactVersion = NoVersion
    /\ ppc = "idle"
    /\ prepares = 0
    /\ ppolls = 0
    /\ existing = NoObject
    /\ recreated = FALSE
    /\ seenGen = 0
    /\ artifactWrites = NoWrites

NoGit == [repository |-> FALSE, username |-> FALSE, password |-> FALSE, cleanup |-> FALSE]
NoBuildVersion == [name |-> <<>>, revision |-> FALSE, buildCommand |-> FALSE]

BuildIdle ==
    /\ gitcfg = NoGit
    /\ rawDir = <<>>
    /\ baseDir = <<>>
    /\ bver = NoBuildVersion
    /\ cloneDir = <<>>
    /\ bidx = 0
    /\ bpc = "idle"
    /\ staging = [v \in Tags |-> <<>>]
    /\ target = [v \in Tags |-> "absent"]
    /\ remoteURL = "none"
    /\ bcalls = <<>>
    /\ deferred = {}
    /\ bresult = "none"

(* the command before its flags are parsed *)
KubeIdle == [pc |-> "idle", kubeconfig |-> "", env |-> "", home |-> "", loaded |-> "", child |-> ""]

Init ==
    /\ PrepIdle
    /\ BuildIdle
    /\ kube = KubeIdle
    /\ artifact \in BOOLEAN
    /\ av = [t \in Tags |-> "absent"]
    /\ pm = [exists |-> FALSE, entries |-> {}]
    /\ ns = FALSE
    /\ sub = NoSub
    /\ plans = [k \in PlanIds |-> "absent"]
    /\ csvs = [c \in CSVNames |-> "absent"]
    /\ immediate \in BOOLEAN
    /\ cancelled = FALSE
    /\ cancelAt = NoCancel
    /\ pc = "Execute"
    /\ path = 1
    /\ idx = 1
    /\ csv = <<>>
    /\ planName = 0
    /\ attempt = 0
    /\ polls = 0
    /\ exit = "running"
    /\ stages = <<>>
    /\ createCalls = 0
    /\ sleeps = <<>>
    /\ goneSeen = {}
    /\ delOut = [k \in Kinds |-> "none"]
    /\ calls = {}
    /\ createdOver = FALSE
    /\ failedCalls = {}
    /\ errSite = NoErr
    /\ tests = <<>>
    /\ lastTest = NoTest
    /\ pathResult = [p \in Paths |-> "none"]
    /\ log = <<>>

(* ------------------- lifecycle manager (environment) ------------------- *)

(* the platform resolves a requested tag: phase Present, with or without   *)
(* the status.version the tool's contract needs                            *)
LM_PublishVersion ==
    /\ \E t \in Tags, ph \in {"Present", "PresentNoVersion"} :
        /\ av[t] = "Pending"
        /\ av' = [av EXCEPT ![t] = ph]
    /\ UNCHANGED <<artifact, pm, ns, sub, plans, csvs, ctl, locals, verHist, runHist>>

(* the catalog propagates the bundle of a present version *)
LM_PublishCatalog ==
    /\ \E t \in Tags :
        /\ av[t] = "Present"
        /\ CSVOf(t) \notin pm.entries
        /\ pm' = [exists |-> TRUE, entries |-> pm.entries \cup {CSVOf(t)}]
    /\ UNCHANGED <<artifact, av, ns, sub, plans, csvs, ctl, locals, verHist, runHist>>

(* OLM computes an install plan for a live Subscription *)
LM_GeneratePlan ==
    /\ sub.state = "live"
    /\ sub.plan = 0
    /\ \E k \in PlanIds :
        /\ plans[k] = "absent"
        /\ \A j \in PlanIds : j < k => plans[j] # "absent"
        /\ plans' = [plans EXCEPT ![k] = "unapproved"]
        /\ sub' = [sub EXCEPT !.plan = k]
    /\ UNCHANGED <<artifact, av, pm, ns, csvs, ctl, locals, verHist, runHist>>

(* OLM executes an approved plan: the CSV appears, then succeeds *)
LM_InstallCSV ==
    /\ sub.state = "live"
    /\ sub.plan # 0
    /\ plans[sub.plan] = "approved"
    /\ csvs[sub.csv] \in {"absent", "Pending"}
    /\ csvs' = [csvs EXCEPT ![sub.csv] = IF @ = "absent" THEN "Pending" ELSE "Succeeded"]
    /\ UNCHANGED <<artifact, av, pm, ns, sub, plans, ctl, locals, verHist, runHist>>

(* the API server finishes a deletion once finalizers have run *)
LM_FinalizeDelete ==
    /\ \/ /\ sub.state = "terminating"
          /\ sub' = NoSub
          /\ UNCHANGED csvs
       \/ /\ \E c \in CSVNames :
               /\ csvs[c] = "terminating"
               /\ csvs' = [csvs EXCEPT ![c] = "absent"]
          /\ UNCHANGED sub
    /\ UNCHANGED <<artifact, av, pm, ns, plans, ctl, locals, verHist, runHist>>

(* ------------------------------ the tool ------------------------------- *)

(* mutant: the calls are made with a context of their own *)
Faults_uncancellable == BOOLEAN

(* whether a cluster call fails: any call may fail, and a call made with a *)
(* context that is done fails                                              *)
Faults == IF cancelled THEN {TRUE} ELSE BOOLEAN

(* exit status 0 of a command started with exec.CommandContext: never with *)
(* a context that is done                                                  *)
Exits == IF cancelled THEN {FALSE} ELSE BOOLEAN

(* a cluster call answers: failed is TRUE when it returned an error that   *)
(* is not one the caller could tolerate at that call                       *)
CallFailed(failed, op, kind) ==
    failedCalls' = IF failed THEN failedCalls \cup {<<op, kind>>} ELSE failedCalls

(* a call returns its error to process, which returns it to Execute *)
Return(fn, cause) == pc' = "process_err" /\ errSite' = [fn |-> fn, cause |-> cause]
Goto(l) == pc' = l /\ UNCHANGED errSite

Tag == BundleVersion(path, idx)

(* status.version of an ArtifactVersion in the given phase *)
StatusVersion(t) == IF av[t] = "Present" THEN CSVOf(t) ELSE <<>>

(* Execute: the loop over cfg.UpgradePaths calls process for the next path, *)
(* or returns nil when no path is left                                      *)
Execute ==
    /\ pc = "Execute"
    /\ IF path <= NumPaths
       THEN /\ pc' = "InstallArtifactVersion"
            /\ idx' = 1
            /\ exit' = exit
            /\ log' = Append(log, <<"install", path, 1>>)
       ELSE /\ pc' = "done"
            /\ exit' = "ok"
            /\ idx' = idx
            /\ log' = log
    /\ FreshVersion
    /\ UNCHANGED <<cluster, static, path, tests, lastTest, pathResult>>

(* mutant: a not-found answer for the Artifact is not taken as an error *)
ArtifactError_notFoundIgnored(fault, found) == fault

(* InstallArtifactVersion: err != nil of the GetResource of the Artifact,  *)
(* which answers not-found for a missing one                               *)
ArtifactError(fault, found) == fault \/ ~found

(* InstallArtifactVersion: GetResource of the Artifact *)
InstallArtifactVersion ==
    /\ pc = "InstallArtifactVersion"
    /\ \E fault \in Faults :
        /\ CallFailed(fault \/ ~artifact, "Get", "artifact")
        /\ IF ArtifactError(fault, artifact)
           THEN Return("InstallArtifactVersion", IF fault THEN "Error" ELSE "NotFound")
           ELSE Goto("createArtifactVersion")
    /\ UNCHANGED <<cluster, static, path, idx, exit, locals, runHist,
                   stages, createCalls, sleeps, goneSeen, delOut, calls, createdOver>>

(* createArtifactVersion: Get by name; an existing record is returned as it *)
(* is, any Get error leads to the Create                                    *)
createArtifactVersion ==
    /\ pc = "createArtifactVersion"
    /\ \E fault \in Faults :
        /\ CallFailed(fault, "Get", "artifactversion")
        /\ IF ~fault /\ av[Tag] # "absent"
           THEN /\ Goto("waitArtifactVersionPresent")
                /\ stages' = Append(stages, "Requested")
           ELSE /\ Goto("createArtifactVersion_Create")
                /\ stages' = stages
    /\ polls' = 0
    /\ UNCHANGED <<cluster, static, path, idx, exit, csv, planName, attempt, runHist,
                   createCalls, sleeps, goneSeen, delOut, calls, createdOver>>

createArtifactVersion_Create ==
    /\ pc = "createArtifactVersion_Create"
    /\ calls' = calls \cup {<<"Create", "artifactversion">>}
    /\ \E fault \in Faults :
        /\ CallFailed(fault \/ av[Tag] # "absent", "Create", "artifactversion")
        /\ IF ~fault /\ av[Tag] = "absent"
           THEN /\ av' = [av EXCEPT ![Tag] = "Pending"]
                /\ stages' = Append(stages, "Requested")
                /\ Goto("waitArtifactVersionPresent")
           ELSE /\ av' = av
                /\ stages' = stages
                /\ Return("createArtifactVersion", IF fault THEN "Error" ELSE "AlreadyExists")
    /\ polls' = 0
    /\ UNCHANGED <<artifact, pm, ns, sub, plans, csvs, static, path, idx, exit,
                   csv, planName, attempt, runHist,
                   createCalls, sleeps, goneSeen, delOut, createdOver>>

(* status.phase of an ArtifactVersion record *)
Phase(rec) == IF rec = "PresentNoVersion" THEN "Present" ELSE rec

(* the condition of waitArtifactVersionPresent on a fetched object *)
PhaseIsPresent(phase) == phase = "Present"

(* mutant: the status.version read is used without the check *)
VersionMissing_ignored(csvName) == FALSE

(* InstallArtifactVersion: !found || csv == "" on status.version *)
VersionMissing(csvName) == csvName = <<>>

(* waitArtifactVersionPresent: one evaluation of the poll condition, then   *)
(* the status.version check of InstallArtifactVersion when it is done       *)
waitArtifactVersionPresent ==
    /\ pc = "waitArtifactVersionPresent"
    /\ polls < MaxPolls
    /\ \E fault \in Faults :
        /\ CallFailed(fault \/ av[Tag] = "absent", "Get", "artifactversion")
        /\ IF fault \/ av[Tag] = "absent"
           THEN /\ Return("waitArtifactVersionPresent", IF fault THEN "Error" ELSE "NotFound")
                /\ UNCHANGED <<stages, csv, polls>>
           ELSE /\ stages' = IF Phase(av[Tag]) = "Present"
                             THEN Append(stages, "Present") ELSE stages
                /\ IF PhaseIsPresent(Phase(av[Tag]))
                   THEN /\ csv' = StatusVersion(Tag)
                        /\ polls' = 0
                        /\ IF VersionMissing(StatusVersion(Tag))
                           THEN Return("InstallArtifactVersion", "NoVersion")
                           ELSE Goto("waitPackageManifest")
                   ELSE /\ polls' = polls + 1
                        /\ csv' = csv
                        /\ Goto("waitArtifactVersionPresent")
    /\ UNCHANGED <<cluster, static, path, idx, exit, planName, attempt, runHist,
                   createCalls, sleeps, goneSeen, delOut, calls, createdOver>>

(* mutant: the deadline error is dropped and the version is derived from the tag *)
waitArtifactVersionPresent_TimeoutIgnored ==
    /\ pc = "waitArtifactVersionPresent"
    /\ polls = MaxPolls
    /\ Goto("deleteResource_subscription")
    /\ csv' = CSVOf(Tag)
    /\ polls' = 0
    /\ UNCHANGED <<cluster, static, path, idx, exit, planName, attempt, runHist,
                   stages, createCalls, sleeps, goneSeen, delOut, calls, createdOver, failedCalls>>

(* the poll's timeout expires: the wait returns the deadline error *)
waitArtifactVersionPresent_Timeout ==
    /\ pc = "waitArtifactVersionPresent"
    /\ polls = MaxPolls
    /\ Return("waitArtifactVersionPresent", "Timeout")
    /\ UNCHANGED <<cluster, static, path, idx, exit, locals, runHist,
                   stages, createCalls, sleeps, goneSeen, delOut, calls, createdOver, failedCalls>>

(* mutant: any entry of any channel satisfies the wait *)
HasEntry_anyEntry(entries, c) == entries # {}

(* the loop of waitPackageManifest over status.channels[].entries[].name *)
HasEntry(entries, c) == \E e \in entries : Contains(e, c)

(* mutant: the empty identifier is let through *)
EmptyCSV_ignored(c) == FALSE

(* InstallSubscription: if csv == "" { return fmt.Errorf("csv is empty") } *)
EmptyCSV(c) == c = <<>>

waitPackageManifest ==
    /\ pc = "waitPackageManifest"
    /\ polls < MaxPolls
    /\ \E fault \in Faults :
        /\ CallFailed(fault, "Get", "packagemanifest")
        /\ IF fault
           THEN /\ Return("waitPackageManifest", "Error")
                /\ UNCHANGED <<stages, polls>>
           ELSE /\ stages' = IF pm.exists /\ (\E e \in pm.entries : Contains(e, csv))
                             THEN Append(stages, "Catalog") ELSE stages
                /\ IF pm.exists /\ HasEntry(pm.entries, csv)
                   THEN /\ polls' = 0
                        /\ IF EmptyCSV(csv)
                           THEN Return("InstallSubscription", "EmptyCSV")
                           ELSE Goto("deleteResource_subscription")
                   ELSE /\ polls' = polls + 1
                        /\ Goto("waitPackageManifest")
    /\ UNCHANGED <<cluster, static, path, idx, exit, csv, planName, attempt, runHist,
                   createCalls, sleeps, goneSeen, delOut, calls, createdOver>>

waitPackageManifest_Timeout ==
    /\ pc = "waitPackageManifest"
    /\ polls = MaxPolls
    /\ Return("waitPackageManifest", "Timeout")
    /\ UNCHANGED <<cluster, static, path, idx, exit, locals, runHist,
                   stages, createCalls, sleeps, goneSeen, delOut, calls, createdOver, failedCalls>>

(* ---- InstallSubscription ---- *)

(* mutant: a not-found answer of the Delete call is returned as an error *)
DeleteTolerated_strict(out) == out = "OK"

(* deleteResource tolerates a not-found answer of the Delete call *)
DeleteTolerated(out) == out \in {"OK", "NotFound"}

(* mutant: the wait is satisfied by any Get that answers *)
GoneConfirmed_anyAnswer(out) == out # "Error"

(* the condition of deleteResource's wait on the answer of its Get *)
GoneConfirmed(out) == out = "NotFound"

Exists(kind) == IF kind = "subscription" THEN sub.state # "absent" ELSE csvs[csv] # "absent"

(* mutant: the Delete is issued on another CSV of the namespace *)
DeletedCSV_other(c) == CHOOSE d \in CSVNames : d # c

(* InstallSubscription: deleteResource(ctx, csvGVR, csv, o.namespace) names the *)
(* CSV by the identifier it was given                                          *)
DeletedCSV(c) == c

(* what the API server does with a Delete: the object starts terminating *)
Deleted(kind) ==
    IF kind = "subscription"
    THEN /\ sub' = IF sub.state = "absent" THEN sub ELSE [sub EXCEPT !.state = "terminating"]
         /\ csvs' = csvs
    ELSE /\ csvs' = [csvs EXCEPT ![DeletedCSV(csv)] = IF @ = "absent" THEN @ ELSE "terminating"]
         /\ sub' = sub

(* deleteResource: the Delete call *)
deleteResource(kind) ==
    /\ pc = "deleteResource_" \o kind
    /\ calls' = calls \cup {<<"Delete", kind>>}
    /\ \E fault \in Faults :
        LET out == IF fault THEN "Error" ELSE IF Exists(kind) THEN "OK" ELSE "NotFound" IN
        /\ CallFailed(out = "Error", "Delete", kind)
        /\ delOut' = [delOut EXCEPT ![kind] = out]
        /\ IF DeleteTolerated(out)
           THEN Goto("deleteResource_wait_" \o kind)
           ELSE Return("deleteResource_" \o kind, out)
        /\ IF out = "OK" THEN Deleted(kind) ELSE UNCHANGED <<sub, csvs>>
    /\ polls' = 0
    /\ UNCHANGED <<artifact, av, pm, ns, plans, static, path, idx, exit,
                   csv, planName, attempt, runHist,
                   stages, createCalls, sleeps, goneSeen, createdOver>>

(* InstallSubscription: what follows the deleteResource of a kind *)
AfterDelete(kind) == IF kind = "subscription" THEN "deleteResource_csv" ELSE "createSubscription"

(* deleteResource: one evaluation of the wait for the object to be gone *)
deleteResource_wait(kind) ==
    /\ pc = "deleteResource_wait_" \o kind
    /\ polls < MaxPolls
    /\ \E fault \in Faults :
        LET out == IF fault THEN "Error" ELSE IF Exists(kind) THEN "OK" ELSE "NotFound" IN
        /\ CallFailed(out = "Error", "Get", kind)
        /\ goneSeen' = IF out = "NotFound" THEN goneSeen \cup {kind} ELSE goneSeen
        /\ IF GoneConfirmed(out)
           THEN Goto(AfterDelete(kind)) /\ polls' = 0
           ELSE IF out = "Error"
                THEN Return("deleteResource_wait_" \o kind, "Error") /\ polls' = polls
                ELSE Goto("deleteResource_wait_" \o kind) /\ polls' = polls + 1
    /\ UNCHANGED <<cluster, static, path, idx, exit, csv, planName, attempt, runHist,
                   stages, createCalls, sleeps, delOut, calls, createdOver>>

(* mutant: the deadline error of the wait is dropped *)
deleteResource_TimeoutIgnored(kind) ==
    /\ pc = "deleteResource_wait_" \o kind
    /\ polls = MaxPolls
    /\ Goto(AfterDelete(kind))
    /\ polls' = 0
    /\ UNCHANGED <<cluster, static, path, idx, exit, csv, planName, attempt, runHist,
                   stages, createCalls, sleeps, goneSeen, delOut, calls, createdOver, failedCalls>>

deleteResource_Timeout(kind) ==
    /\ pc = "deleteResource_wait_" \o kind
    /\ polls = MaxPolls
    /\ Return("deleteResource_wait_" \o kind, "Timeout")
    /\ UNCHANGED <<cluster, static, path, idx, exit, locals, runHist,
                   stages, createCalls, sleeps, goneSeen, delOut, calls, createdOver, failedCalls>>

deleteSubscription == deleteResource("subscription")
deleteSubscription_wait == deleteResource_wait("subscription")
deleteSubscription_Timeout == deleteResource_Timeout("subscription")
deleteCSV == deleteResource("csv")
deleteCSV_wait == deleteResource_wait("csv")
deleteCSV_Timeout == deleteResource_Timeout("csv")

(* createSubscription: Create of the namespace, already-exists tolerated *)
createSubscription ==
    /\ pc = "createSubscription"
    /\ calls' = calls \cup {<<"Create", "namespace">>}
    /\ \E fault \in Faults :
        /\ CallFailed(fault, "Create", "namespace")
        /\ IF fault
           THEN Return("createSubscription", "NamespaceError") /\ ns' = ns /\ attempt' = attempt
           ELSE Goto("createSubscription_attempt") /\ ns' = TRUE /\ attempt' = 1
    /\ UNCHANGED <<artifact, av, pm, sub, plans, csvs, static, path, idx, exit,
                   csv, planName, polls, runHist,
                   stages, createCalls, sleeps, goneSeen, delOut, createdOver>>

(* mutant: the shift is by attempt instead of attempt-1 *)
Backoff_shifted(a) == 2 ^ a

(* time.Duration(1<<uint(attempt-1)) * time.Second, in seconds *)
Backoff(a) == 2 ^ (a - 1)

(* the retry loop sleeps before every attempt but the last *)
SleepsAfter(a) == a < MaxAttempts

(* createSubscription: one pass of the retry loop: the Create, then the    *)
(* return, the backoff sleep or the final error                            *)
createSubscription_attempt ==
    /\ pc = "createSubscription_attempt"
    /\ attempt <= MaxAttempts
    /\ calls' = calls \cup {<<"Create", "subscription">>}
    /\ createCalls' = createCalls + 1
    /\ createdOver' = (createdOver \/ sub.state # "absent")
    /\ \E fault \in Faults :
        /\ CallFailed(fault \/ sub.state # "absent", "Create", "subscription")
        /\ IF ~fault /\ sub.state = "absent"
           THEN /\ sub' = [state |-> "live", csv |-> csv, plan |-> 0]
                /\ stages' = Append(stages, "Subscribed")
                /\ Goto("waitInstallPlan")
                /\ UNCHANGED <<attempt, sleeps>>
           ELSE /\ UNCHANGED <<sub, stages>>
                /\ sleeps' = IF SleepsAfter(attempt) THEN Append(sleeps, Backoff(attempt)) ELSE sleeps
                /\ attempt' = attempt + 1
                /\ IF attempt + 1 <= MaxAttempts
                   THEN Goto("createSubscription_attempt")
                   ELSE Return("createSubscription", IF fault THEN "Error" ELSE "AlreadyExists")
    /\ polls' = 0
    /\ UNCHANGED <<artifact, av, pm, ns, plans, csvs, static, path, idx, exit,
                   csv, planName, runHist, goneSeen, delOut>>

(* mutant: a Subscription that was found ends the wait, named plan or not *)
PlanNameSet_anyStatus(s) == s.state # "absent"

(* waitInstallPlan: the Subscription was found and $.status.installplan.name *)
(* is a string that is not empty                                             *)
PlanNameSet(s) == s.state # "absent" /\ s.plan # 0

(* mutant: the name of the first InstallPlan of the namespace is taken *)
InstallPlanName_first(s) == 1

(* waitInstallPlan: $.status.installplan.name of the Subscription fetched *)
InstallPlanName(s) == s.plan

(* waitInstallPlan: one evaluation of the poll condition *)
waitInstallPlan ==
    /\ pc = "waitInstallPlan"
    /\ polls < MaxPolls
    /\ \E fault \in Faults :
        /\ CallFailed(fault, "Get", "subscription")
        /\ IF fault
           THEN /\ Return("waitInstallPlan", "Error")
                /\ UNCHANGED <<stages, planName, polls>>
           ELSE IF PlanNameSet(sub)
                THEN /\ planName' = InstallPlanName(sub)
                     /\ stages' = Append(stages, "PlanNamed")
                     /\ polls' = 0
                     /\ Goto("getInstallPlan")
                ELSE /\ polls' = polls + 1
                     /\ Goto("waitInstallPlan")
                     /\ UNCHANGED <<stages, planName>>
    /\ UNCHANGED <<cluster, static, path, idx, exit, csv, attempt, runHist,
                   createCalls, sleeps, goneSeen, delOut, calls, createdOver>>

waitInstallPlan_Timeout ==
    /\ pc = "waitInstallPlan"
    /\ polls = MaxPolls
    /\ Return("waitInstallPlan", "Timeout")
    /\ UNCHANGED <<cluster, static, path, idx, exit, locals, runHist,
                   stages, createCalls, sleeps, goneSeen, delOut, calls, createdOver, failedCalls>>

(* InstallSubscription: Get of the InstallPlan by the name read *)
getInstallPlan ==
    /\ pc = "getInstallPlan"
    /\ \E fault \in Faults :
        /\ CallFailed(fault \/ plans[planName] = "absent", "Get", "installplan")
        /\ IF fault \/ plans[planName] = "absent"
           THEN Return("getInstallPlan", IF fault THEN "Error" ELSE "NotFound")
           ELSE Goto("approveInstallPlan")
    /\ UNCHANGED <<cluster, static, path, idx, exit, locals, runHist,
                   stages, createCalls, sleeps, goneSeen, delOut, calls, createdOver>>

(* InstallSubscription: spec.approved = true, then Update *)
approveInstallPlan ==
    /\ pc = "approveInstallPlan"
    /\ calls' = calls \cup {<<"Update", "installplan">>}
    /\ \E fault \in Faults :
        /\ CallFailed(fault \/ plans[planName] = "absent", "Update", "installplan")
        /\ IF fault \/ plans[planName] = "absent"
           THEN /\ Return("approveInstallPlan", IF fault THEN "Error" ELSE "NotFound")
                /\ UNCHANGED <<plans, stages>>
           ELSE /\ plans' = [plans EXCEPT ![planName] = "approved"]
                /\ stages' = Append(stages, "Approved")
                /\ Goto("waitCSVReady")
    /\ polls' = 0
    /\ UNCHANGED <<artifact, av, pm, ns, sub, csvs, static, path, idx, exit,
                   csv, planName, attempt, runHist,
                   createCalls, sleeps, goneSeen, delOut, createdOver>>

(* mutant: the wait is satisfied by any CSV that exists *)
PhaseIsSucceeded_anyPhase(phase) == TRUE

(* the condition of waitCSVReady on a fetched CSV *)
PhaseIsSucceeded(phase) == phase = "Succeeded"

(* waitCSVReady: one evaluation of the poll condition; when it is done      *)
(* InstallSubscription and UpgradeOperator return nil                       *)
waitCSVReady ==
    /\ pc = "waitCSVReady"
    /\ polls < MaxPolls
    /\ \E fault \in Faults :
        /\ CallFailed(fault, "Get", "csv")
        /\ IF fault
           THEN /\ Return("waitCSVReady", "Error")
                /\ UNCHANGED <<stages, polls>>
           ELSE /\ stages' = IF csvs[csv] = "Succeeded" THEN Append(stages, "Succeeded") ELSE stages
                /\ IF csvs[csv] # "absent" /\ PhaseIsSucceeded(csvs[csv])
                   THEN polls' = 0 /\ Goto("execCommand")
                   ELSE polls' = polls + 1 /\ Goto("waitCSVReady")
    /\ log' = IF stages' = StageOrder THEN Append(log, <<"installed", path, idx>>) ELSE log
    /\ UNCHANGED <<cluster, static, path, idx, exit, csv, planName, attempt,
                   tests, lastTest, pathResult,
                   createCalls, sleeps, goneSeen, delOut, calls, createdOver>>

(* mutant: the deadline error of the wait is dropped *)
waitCSVReady_TimeoutIgnored ==
    /\ pc = "waitCSVReady"
    /\ polls = MaxPolls
    /\ Goto("execCommand")
    /\ UNCHANGED <<cluster, static, path, idx, exit, locals, runHist,
                   stages, createCalls, sleeps, goneSeen, delOut, calls, createdOver, failedCalls>>

(* the poll's timeout expires: InstallSubscription returns the error *)
waitCSVReady_Timeout ==
    /\ pc = "waitCSVReady"
    /\ polls = MaxPolls
    /\ Return("waitCSVReady", "Timeout")
    /\ UNCHANGED <<cluster, static, path, idx, exit, locals, runHist,
                   stages, createCalls, sleeps, goneSeen, delOut, calls, createdOver, failedCalls>>

(* ---- the orchestrator ---- *)

(* mutant: the two defaults are swapped *)
TestCommand_swapped(i, explicit) ==
    IF explicit # "" THEN explicit
    ELSE IF i = 0 THEN "REPO=allure make upgrade"
    ELSE "REPO=allure make prepare"

(* process: the test command of the version at 0-based index i *)
TestCommand(i, explicit) ==
    IF explicit # "" THEN explicit
    ELSE IF i = 0 THEN "REPO=allure make prepare"
    ELSE "REPO=allure make upgrade"

(* mutant: the error of the test command is dropped *)
CommandFailed_ignored(ok) == FALSE

(* process: execCommand returned an error (the command's result.Err)       *)
CommandFailed(ok) == ~ok

(* mutant: process returns nil after its first version *)
LastVersion_first(i) == TRUE

(* process: the range loop over path.Versions ends after the last version  *)
LastVersion(i) == i >= PathLen

(* process: run the test command of the version just installed, then go on *)
(* with the next version, return nil after the last one, or return the     *)
(* command's error                                                         *)
execCommand ==
    /\ pc = "execCommand"
    /\ \E explicit \in {"", "make custom"}, ok \in Exits :
        /\ tests' = Append(tests, <<path, idx>>)
        /\ lastTest' = [path |-> path, idx |-> idx, explicit |-> explicit,
                        cmd |-> TestCommand(idx - 1, explicit), ok |-> ok]
        /\ IF CommandFailed(ok)
           THEN /\ Return("execCommand", "ExitCode")
                /\ log' = log \o << <<"test", path, idx>>,
                                     <<IF ok THEN "testOK" ELSE "testFailed", path, idx>> >>
                /\ UNCHANGED <<path, idx, locals, pathResult,
                               stages, createCalls, sleeps, goneSeen, delOut, calls, createdOver, failedCalls>>
           ELSE IF ~LastVersion(idx)
                THEN /\ pc' = "InstallArtifactVersion"
                     /\ idx' = idx + 1
                     /\ FreshVersion
                     /\ log' = log \o << <<"test", path, idx>>,
                                          <<IF ok THEN "testOK" ELSE "testFailed", path, idx>>,
                                          <<"install", path, idx + 1>> >>
                     /\ UNCHANGED <<path, pathResult>>
                ELSE /\ pc' = "Execute"
                     /\ path' = path + 1
                     /\ pathResult' = [pathResult EXCEPT ![path] = "ok"]
                     /\ log' = log \o << <<"test", path, idx>>,
                                          <<IF ok THEN "testOK" ELSE "testFailed", path, idx>> >>
                     /\ UNCHANGED <<idx, locals, verHist>>
    /\ UNCHANGED <<cluster, static, exit>>

(* mutants: the immediate flag is not consulted *)
ContinueOnError_always(imm) == TRUE
ContinueOnError_never(imm) == FALSE

(* Execute: on an error of process, go on with the next path unless        *)
(* cfg.Immediate is set                                                    *)
ContinueOnError(imm) == ~imm

ExecuteOnError ==
    /\ pc = "process_err"
    /\ pathResult' = [pathResult EXCEPT ![path] = "failed"]
    /\ IF ContinueOnError(immediate)
       THEN /\ pc' = "Execute"
            /\ path' = path + 1
            /\ exit' = exit
       ELSE /\ pc' = "done"
            /\ exit' = "error"
            /\ path' = path
    /\ log' = Append(log, <<"failed", path, idx>>)
    /\ UNCHANGED <<cluster, static, idx, locals, verHist, tests, lastTest>>

LifecycleManager ==
    \/ LM_PublishVersion
    \/ LM_PublishCatalog
    \/ LM_GeneratePlan
    \/ LM_InstallCSV
    \/ LM_FinalizeDelete

Tool ==
    \/ Execute
    \/ InstallArtifactVersion
    \/ createArtifactVersion
    \/ createArtifactVersion_Create
    \/ waitArtifactVersionPresent
    \/ waitArtifactVersionPresent_Timeout
    \/ waitPackageManifest
    \/ waitPackageManifest_Timeout
    \/ deleteSubscription
    \/ deleteSubscription_wait
    \/ deleteSubscription_Timeout
    \/ deleteCSV
    \/ deleteCSV_wait
    \/ deleteCSV_Timeout
    \/ createSubscription
    \/ createSubscription_attempt
    \/ waitInstallPlan
    \/ waitInstallPlan_Timeout
    \/ getInstallPlan
    \/ approveInstallPlan
    \/ waitCSVReady
    \/ waitCSVReady_Timeout
    \/ execCommand
    \/ ExecuteOnError

Next == Tool \/ LifecycleManager

Spec == Init /\ [][Next]_vars

(* ------------- the reconciler under a caller that may cancel ------------ *)

(* the positions inside a wait.PollUntilContextTimeout *)
WaitPcs == {"waitArtifactVersionPresent", "waitPackageManifest",
            "deleteResource_wait_subscription", "deleteResource_wait_csv",
            "waitInstallPlan", "waitCSVReady"}

(* the caller of UpgradeOperator cancels the context it passed *)
Cancel ==
    /\ ~cancelled
    /\ pc \notin {"Execute", "process_err", "done"}
    /\ cancelled' = TRUE
    /\ cancelAt' = [pc |-> pc, path |-> path, idx |-> idx, polls |-> polls,
                    stages |-> stages, calls |-> calls,
                    attempt |-> attempt, createCalls |-> createCalls]
    /\ UNCHANGED <<cluster, immediate, prep, build, kube, pc, path, idx, exit,
                   locals, verHist, runHist>>

NextCancel == Next \/ Cancel

SpecCancel == Init /\ [][NextCancel]_vars

(* ---- a BundleVersion record removed while the tool waits for it ---- *)

(* the record waited for is deleted by another client of the API server,   *)
(* or collected with its owner: the next Get of the wait answers not-found *)
ArtifactVersionRemoved ==
    /\ pc = "waitArtifactVersionPresent"
    /\ av[Tag] # "absent"
    /\ av' = [av EXCEPT ![Tag] = "absent"]
    /\ UNCHANGED <<artifact, pm, ns, sub, plans, csvs, ctl, locals, verHist, runHist>>

NextRemoved == Next \/ ArtifactVersionRemoved

SpecRemoved == Init /\ [][NextRemoved]_vars

(* ---- InstallSubscription called with status.version as it was read ---- *)

(* status.version of a record that carries none: NestedString gives "" *)
CSVArguments == {<<>>}

(* processUpgrade of cmd/upgrade.go passes status.version of the record to *)
(* the exported InstallSubscription unchecked: the method is entered with  *)
(* the empty string when the record has no status.version                  *)
InstallSubscription ==
    /\ pc = "InstallArtifactVersion"
    /\ \E c \in CSVArguments :
        /\ csv' = c
        /\ IF EmptyCSV(c)
           THEN Return("InstallSubscription", "EmptyCSV")
           ELSE Goto("deleteResource_subscription")
    /\ UNCHANGED <<cluster, static, path, idx, exit, planName, attempt, polls, runHist,
                   stages, createCalls, sleeps, goneSeen, delOut, calls, createdOver, failedCalls>>

NextInstall == Next \/ InstallSubscription

SpecInstall == Init /\ [][NextInstall]_vars

(* ---- an InstallPlan approved before the tool fetches it ---- *)

(* the plan named by the Subscription is approved by another client before *)
(* InstallSubscription gets it: the Get answers spec.approved = true       *)
InstallPlanApproved ==
    /\ pc \in {"waitInstallPlan", "getInstallPlan"}
    /\ sub.state = "live"
    /\ sub.plan # 0
    /\ plans[sub.plan] = "unapproved"
    /\ plans' = [plans EXCEPT ![sub.plan] = "approved"]
    /\ UNCHANGED <<artifact, av, pm, ns, sub, csvs, ctl, locals, verHist, runHist>>

NextApproved == Next \/ InstallPlanApproved

SpecApproved == Init /\ [][NextApproved]_vars

(* ============ PrepareOperator (pkg/operator, bundle images) ============= *)

reconciler == <<cluster, immediate, cancelled, cancelAt, kube, pc, path, idx, exit, locals,
                verHist, runHist>>
main == <<reconciler, build>>

PGoto(l) == ppc' = l

(* the platform resolves the requested tag of a live record: phase Present, *)
(* with status.name and status.version or without them                      *)
PLM_Publish ==
    /\ artifactVersion.state = "live"
    /\ artifactVersion.phase = "Pending"
    /\ \E st \in {"full", "partial"} :
        artifactVersion' = [artifactVersion EXCEPT !.phase = "Present", !.status = st]
    /\ UNCHANGED <<main, artifactSpec, ppc, prepares, ppolls, existing, recreated, seenGen, artifactWrites>>

(* the API server finishes the deletion of the record *)
PLM_FinalizeDelete ==
    /\ artifactVersion.state = "terminating"
    /\ artifactVersion' = [NoVersion EXCEPT !.gen = artifactVersion.gen]
    /\ UNCHANGED <<main, artifactSpec, ppc, prepares, ppolls, existing, recreated, seenGen, artifactWrites>>

(* PrepareOperator is called for a version: the bundle image is checked and *)
(* parsed; the registry/repository asked for may differ from the Artifact's *)
PrepareOperator ==
    /\ ppc \in {"idle", "prepared", "failed"}
    /\ prepares < MaxPrepares
    /\ prepares' = prepares + 1
    /\ ppolls' = 0
    /\ existing' = NoObject
    /\ recreated' = FALSE
    /\ seenGen' = 0
    /\ artifactWrites' = NoWrites
    /\ \E valid \in BOOLEAN, drift \in BOOLEAN :
        /\ PGoto(IF valid THEN "CreateArtifact" ELSE "failed")
        /\ artifactSpec' = IF valid /\ drift /\ artifactSpec = "same" THEN "other" ELSE artifactSpec
    /\ UNCHANGED <<main, artifactVersion>>

(* CreateArtifact: Get; a matching Artifact is returned, a differing one is *)
(* updated, and after any Get error the Artifact is created                 *)
CreateArtifact ==
    /\ ppc = "CreateArtifact"
    /\ \E getFault \in BOOLEAN, writeFault \in BOOLEAN :
        /\ artifactWrites' =
              [found |-> artifactSpec,
               ops |-> IF ~getFault /\ artifactSpec = "same" THEN <<>>
                       ELSE IF ~getFault /\ artifactSpec = "other" THEN <<"Update">>
                       ELSE <<"Create">>]
        /\ IF ~getFault /\ artifactSpec = "same"
           THEN PGoto("CreateArtifactVersion") /\ UNCHANGED artifactSpec
           ELSE IF writeFault \/ (getFault /\ artifactSpec # "absent")
                THEN PGoto("failed") /\ UNCHANGED artifactSpec
                ELSE PGoto("CreateArtifactVersion") /\ artifactSpec' = "same"
    /\ UNCHANGED <<main, artifactVersion, prepares, ppolls, existing, recreated, seenGen>>

(* CreateArtifactVersion: Get of the record by name *)
CreateArtifactVersion ==
    /\ ppc = "CreateArtifactVersion"
    /\ \E fault \in BOOLEAN :
        IF ~fault /\ artifactVersion.state # "absent"
        THEN /\ PGoto("CreateArtifactVersion_Delete")
             /\ existing' = Object(artifactVersion)
        ELSE /\ PGoto("CreateArtifactVersion_Create")
             /\ UNCHANGED existing
    /\ UNCHANGED <<main, artifactSpec, artifactVersion, prepares, ppolls, recreated, seenGen, artifactWrites>>

(* CreateArtifactVersion: Delete of the existing record *)
CreateArtifactVersion_Delete ==
    /\ ppc = "CreateArtifactVersion_Delete"
    /\ \E fault \in BOOLEAN :
        IF fault \/ artifactVersion.state = "absent"
        THEN PGoto("failed") /\ UNCHANGED artifactVersion
        ELSE /\ PGoto("CreateArtifactVersion_WaitGone")
             /\ artifactVersion' = [artifactVersion EXCEPT !.state = "terminating"]
    /\ UNCHANGED <<main, artifactSpec, prepares, ppolls, existing, recreated, seenGen, artifactWrites>>

(* CreateArtifactVersion: one pass of the loop that waits for the deletion: *)
(* any Get error ends it, otherwise it sleeps and gets again                *)
(* the loop has no deadline: its passes are followed one beyond MaxPolls     *)
CreateArtifactVersion_WaitGone ==
    /\ ppc = "CreateArtifactVersion_WaitGone"
    /\ \E fault \in BOOLEAN :
        IF fault \/ artifactVersion.state = "absent"
        THEN /\ PGoto("CreateArtifactVersion_Create")
             /\ UNCHANGED ppolls
        ELSE /\ ppolls <= MaxPolls
             /\ PGoto("CreateArtifactVersion_WaitGone")
             /\ ppolls' = ppolls + 1
    /\ UNCHANGED <<main, artifactSpec, artifactVersion, prepares, existing, recreated, seenGen, artifactWrites>>

(* CreateArtifactVersion: Create of the record *)
CreateArtifactVersion_Create ==
    /\ ppc = "CreateArtifactVersion_Create"
    /\ \E fault \in BOOLEAN :
        IF fault \/ artifactVersion.state # "absent"
        THEN /\ PGoto("failed")
             /\ UNCHANGED <<artifactVersion, recreated>>
        ELSE /\ PGoto("WaitForArtifactVersionPresent")
             /\ artifactVersion' = [state |-> "live", phase |-> "Pending", status |-> "none",
                                    gen |-> artifactVersion.gen + 1]
             /\ recreated' = (existing # NoObject)
    /\ ppolls' = 0
    /\ UNCHANGED <<main, artifactSpec, prepares, existing, seenGen, artifactWrites>>

(* mutant: a Present record seen before the deletion satisfies the wait *)
PolledObject_cached(fetched, cached) == IF cached.phase = "Present" THEN cached ELSE fetched

(* WaitForArtifactVersionPresent reads the status of the object its Get returned *)
PolledObject(fetched, cached) == fetched

(* WaitForArtifactVersionPresent: one pass of the loop *)
WaitForArtifactVersionPresent ==
    /\ ppc = "WaitForArtifactVersionPresent"
    /\ ppolls < MaxPolls
    /\ \E fault \in BOOLEAN :
        IF fault \/ artifactVersion.state = "absent"
        THEN PGoto("failed") /\ UNCHANGED <<ppolls, seenGen, artifactWrites>>
        ELSE /\ seenGen' = IF artifactVersion.phase = "Present" THEN artifactVersion.gen ELSE seenGen
             /\ IF PolledObject(Object(artifactVersion), existing).phase = "Present"
                THEN /\ PGoto(IF PolledObject(Object(artifactVersion), existing).status = "full"
                              THEN "prepared" ELSE "failed")
                     /\ UNCHANGED ppolls
                ELSE /\ PGoto("WaitForArtifactVersionPresent")
                     /\ ppolls' = ppolls + 1
    /\ UNCHANGED <<main, artifactSpec, artifactVersion, prepares, existing, recreated,
                   artifactWrites>>

(* the deadline of WaitForArtifactVersionPresent has passed *)
WaitForArtifactVersionPresent_Timeout ==
    /\ ppc = "WaitForArtifactVersionPresent"
    /\ ppolls = MaxPolls
    /\ PGoto("failed")
    /\ UNCHANGED <<main, artifactSpec, artifactVersion, prepares, ppolls, existing, recreated, seenGen, artifactWrites>>

NextPrepare ==
    \/ PrepareOperator
    \/ CreateArtifact
    \/ CreateArtifactVersion
    \/ CreateArtifactVersion_Delete
    \/ CreateArtifactVersion_WaitGone
    \/ CreateArtifactVersion_Create
    \/ WaitForArtifactVersionPresent
    \/ WaitForArtifactVersionPresent_Timeout
    \/ PLM_Publish
    \/ PLM_FinalizeDelete

InitPrepare == Init /\ artifact /\ ~immediate

SpecPrepare == InitPrepare /\ [][NextPrepare]_vars

(* ============ source build flow (cmd/upgrade.go, pkg/git) =============== *)

(* characters of path names: a letter, a digit, the characters the comment *)
(* of sanitizePath names, one other character, and os.PathSeparator        *)
Chars == {"a", "7", "_", "-", ".", "!", "/"}
PathSeparator == "/"
Strings == UNION {[1..n -> Chars] : n \in 0..MaxLen}

(* strings.Split(path, string(os.PathSeparator)) *)
RECURSIVE Split(_)
Split(s) ==
    IF \A k \in 1..Len(s) : s[k] # PathSeparator
    THEN <<s>>
    ELSE LET k == CHOOSE i \in 1..Len(s) :
                    s[i] = PathSeparator /\ \A j \in 1..(i - 1) : s[j] # PathSeparator
         IN <<SubSeq(s, 1, k - 1)>> \o Split(SubSeq(s, k + 1, Len(s)))

(* strings.Join(parts, string(os.PathSeparator)) *)
RECURSIVE Join(_)
Join(parts) ==
    IF Len(parts) = 1 THEN parts[1]
    ELSE parts[1] \o <<PathSeparator>> \o Join(Tail(parts))

(* the condition of the strings.Map callback: digits, letters, '_' and '.' *)
AllowedRune(r) == r \in {"a", "7"} \/ r = "_" \/ r = "."

(* the strings.Map callback *)
MapRune(r) == IF AllowedRune(r) THEN r ELSE "_"

(* strings.Map over one part *)
MapPart(part) == [k \in 1..Len(part) |-> MapRune(part[k])]

(* regexp.MustCompile(`_+`).ReplaceAllString(part, "_") *)
RECURSIVE CollapseUnderscores(_)
CollapseUnderscores(part) ==
    IF Len(part) < 2 THEN part
    ELSE IF part[1] = "_" /\ part[2] = "_" THEN CollapseUnderscores(Tail(part))
    ELSE <<part[1]>> \o CollapseUnderscores(Tail(part))

(* mutant: the underscores are collapsed before the characters are mapped *)
sanitizePath_collapseFirst(name) ==
    Join([i \in 1..Len(Split(name)) |-> MapPart(CollapseUnderscores(Split(name)[i]))])

(* sanitizePath: split, map and collapse every part, join *)
sanitizePath(name) ==
    Join([i \in 1..Len(Split(name)) |-> CollapseUnderscores(MapPart(Split(name)[i]))])

(* the elements of a cleaned path: empty and "." elements are dropped, a    *)
(* ".." element removes the element before it, or stays when none is left   *)
(* and the path is not rooted                                               *)
RECURSIVE CleanParts(_, _, _)
CleanParts(parts, acc, rooted) ==
    IF parts = <<>> THEN acc
    ELSE LET part == Head(parts) IN
         CleanParts(Tail(parts),
                    IF part = <<>> \/ part = <<".">> THEN acc
                    ELSE IF part = <<".", ".">>
                         THEN IF acc # <<>> /\ acc[Len(acc)] # <<".", ".">>
                              THEN SubSeq(acc, 1, Len(acc) - 1)
                              ELSE IF rooted THEN acc ELSE Append(acc, part)
                    ELSE Append(acc, part),
                    rooted)

(* filepath.Clean: the shortest path name equivalent to the given one *)
filepathClean(name) ==
    LET rooted == name # <<>> /\ name[1] = PathSeparator
        parts == CleanParts(Split(name), <<>>, rooted)
    IN IF parts = <<>> THEN (IF rooted THEN <<PathSeparator>> ELSE <<".">>)
       ELSE (IF rooted THEN <<PathSeparator>> ELSE <<>>) \o Join(parts)

(* filepath.Join(dir, name): the elements that are not empty, joined by the *)
(* separator and cleaned                                                    *)
filepathJoin(dir, name) ==
    IF dir = <<>> /\ name = <<>> THEN <<>>
    ELSE IF dir = <<>> THEN filepathClean(name)
    ELSE IF name = <<>> THEN filepathClean(dir)
    ELSE filepathClean(dir \o <<PathSeparator>> \o name)

(* version.Name of the versions of the build flow *)
VersionNames == {<<"a">>, <<"7", "-", "a">>, <<".", ".">>, <<"a", "/", "7">>}

(* configurations of cfg.Git and cfg.Cleanup *)
GitConfigs == [repository : BOOLEAN, username : BOOLEAN, password : BOOLEAN, cleanup : BOOLEAN]
(* filepath.Join(cfg.Workspace, path.Name) of the paths of the build flow *)
WorkDirs == {<<"a">>, <<"a", "/", "!">>}

BuildFrame == UNCHANGED <<reconciler, prep>>

(* an error is returned to processUpgrade, which returns it *)
BFail == bpc' = "return" /\ bresult' = "error"

(* processUpgrade: git.NewGitManager(filepath.Join(cfg.Workspace, path.Name), ...) *)
NewGitManager(dirs, cfgs) ==
    /\ bpc = "idle"
    /\ \E dir \in dirs, cfg \in cfgs, mkdirFails \in BOOLEAN :
        /\ rawDir' = dir
        /\ gitcfg' = cfg
        /\ IF mkdirFails
           THEN BFail /\ UNCHANGED <<baseDir, bidx>>
           ELSE /\ baseDir' = sanitizePath(dir)
                /\ bidx' = 1
                /\ bpc' = "version"
                /\ bresult' = bresult
    /\ UNCHANGED <<bver, cloneDir, staging, target, remoteURL, bcalls, deferred>>
    /\ BuildFrame

processUpgrade == NewGitManager(WorkDirs, GitConfigs)

(* processUpgrade: the condition of the clone *)
ClonesFromGit(cfg, ver) == cfg.repository /\ ver.revision /\ ver.buildCommand

(* processUpgrade: the condition of the build *)
Builds(ver) == ver.buildCommand

(* processUpgrade: the next version of the loop, and whether it is cloned *)
processUpgrade_version ==
    /\ bpc = "version"
    /\ \E ver \in [name : VersionNames, revision : BOOLEAN, buildCommand : BOOLEAN] :
        /\ bver' = ver
        /\ cloneDir' = <<>>
        /\ bpc' = IF ClonesFromGit(gitcfg, ver) THEN "Clone"
                  ELSE IF Builds(ver) THEN "Build" ELSE "deployOperator"
    /\ UNCHANGED <<gitcfg, rawDir, baseDir, bidx, staging, target, remoteURL,
                   bcalls, deferred, bresult>>
    /\ BuildFrame

(* Clone: an existing clone directory is removed, the directory is created *)
Clone ==
    /\ bpc = "Clone"
    /\ cloneDir' = filepathJoin(baseDir, bver.name)
    /\ bcalls' = Append(bcalls, <<"Clone", bidx>>)
    /\ staging' = [staging EXCEPT ![bidx] = <<>>]
    /\ \E stale \in BOOLEAN, removeFails \in BOOLEAN, mkdirFails \in BOOLEAN :
        LET found == IF stale /\ target[bidx] = "absent" THEN "stale" ELSE target[bidx] IN
        IF found # "absent" /\ removeFails
        THEN BFail /\ target' = [target EXCEPT ![bidx] = found]
        ELSE IF mkdirFails
        THEN BFail /\ target' = [target EXCEPT ![bidx] = "absent"]
        ELSE /\ target' = [target EXCEPT ![bidx] = "empty"]
             /\ bpc' = "cloneRepository"
             /\ bresult' = bresult
    /\ UNCHANGED <<gitcfg, rawDir, baseDir, bver, bidx, remoteURL, deferred>>
    /\ BuildFrame

(* cloneRepository: the commands run in the temporary directory, in order *)
GitSteps(cfg) ==
    IF cfg.username /\ cfg.password
    THEN <<"mkdtemp", "init", "credential", "remote", "fetch", "checkout">>
    ELSE <<"mkdtemp", "init", "remote", "fetch", "checkout">>

(* mutant: the user is set in the URL when either of the two is given *)
RemoteURL_eitherSet(cfg) == IF cfg.username \/ cfg.password THEN "withCredentials" ELSE "plain"

(* cloneRepository: the URL of git remote add *)
RemoteURL(cfg) == IF cfg.username /\ cfg.password THEN "withCredentials" ELSE "plain"

(* mutant: the error of a git command is dropped *)
StepFailed_ignored(ok) == FALSE

(* cloneRepository: result.Err != nil of a command *)
StepFailed(ok) == ~ok

(* cloneRepository: one command in the temporary directory *)
cloneRepository ==
    /\ bpc = "cloneRepository"
    /\ Len(staging[bidx]) < Len(GitSteps(gitcfg))
    /\ LET step == GitSteps(gitcfg)[Len(staging[bidx]) + 1] IN
       \E ok \in BOOLEAN :
        /\ staging' = [staging EXCEPT ![bidx] = Append(@, <<step, ok>>)]
        /\ remoteURL' = IF step = "remote" THEN RemoteURL(gitcfg) ELSE remoteURL
        /\ IF StepFailed(ok) THEN BFail ELSE UNCHANGED <<bpc, bresult>>
    /\ UNCHANGED <<gitcfg, rawDir, baseDir, cloneDir, bver, bidx, target, bcalls, deferred>>
    /\ BuildFrame

(* cloneRepository: cp -rf of the temporary directory into the target *)
cloneRepository_copy ==
    /\ bpc = "cloneRepository"
    /\ Len(staging[bidx]) = Len(GitSteps(gitcfg))
    /\ \E ok \in BOOLEAN, copied \in {"empty", "partial"} :
        IF ok
        THEN /\ target' = [target EXCEPT ![bidx] = "repo"]
             /\ bpc' = "Build"
             /\ bresult' = bresult
        ELSE /\ target' = [target EXCEPT ![bidx] = copied]
             /\ BFail
    /\ UNCHANGED <<gitcfg, rawDir, baseDir, cloneDir, bver, bidx, staging, remoteURL, bcalls, deferred>>
    /\ BuildFrame

(* Build: the build command runs in cloneDir ("" when nothing was cloned) *)
Build ==
    /\ bpc = "Build"
    /\ bcalls' = Append(bcalls, <<"Build", bidx>>)
    /\ \E ok \in BOOLEAN :
        IF ok THEN bpc' = "deployOperator" /\ bresult' = bresult ELSE BFail
    /\ UNCHANGED <<gitcfg, rawDir, baseDir, cloneDir, bver, bidx, staging, target, remoteURL, deferred>>
    /\ BuildFrame

(* deployOperator: PrepareOperator and InstallOperator for the version, *)
(* which is passed as configured                                        *)
deployOperator ==
    /\ bpc = "deployOperator"
    /\ bcalls' = Append(bcalls, <<"deployOperator", bidx>>)
    /\ \E ok \in BOOLEAN :
        IF ok THEN bpc' = "execUpgradeTest" /\ bresult' = bresult ELSE BFail
    /\ UNCHANGED <<gitcfg, rawDir, baseDir, cloneDir, bver, bidx, staging, target, remoteURL, deferred>>
    /\ BuildFrame

(* mutant: Cleanup is deferred whatever the configuration *)
CleanupDeferred_always(cfg) == TRUE

(* processUpgrade: if cfg.Cleanup { defer gitManager.Cleanup(cloneDir) } *)
CleanupDeferred(cfg) == cfg.cleanup

(* execUpgradeTest, then the deferral of Cleanup and the next iteration *)
execUpgradeTest ==
    /\ bpc = "execUpgradeTest"
    /\ bcalls' = Append(bcalls, <<"execUpgradeTest", bidx>>)
    /\ \E ok \in BOOLEAN :
        IF ~ok
        THEN BFail /\ UNCHANGED <<bidx, deferred>>
        ELSE /\ deferred' = IF CleanupDeferred(gitcfg) THEN deferred \cup {bidx} ELSE deferred
             /\ IF bidx < PathLen
                THEN bidx' = bidx + 1 /\ bpc' = "version" /\ bresult' = bresult
                ELSE bidx' = bidx /\ bpc' = "return" /\ bresult' = "ok"
    /\ UNCHANGED <<gitcfg, rawDir, baseDir, cloneDir, bver, staging, target, remoteURL>>
    /\ BuildFrame

(* the versions of a set in descending order: deferred calls run last in, first out *)
RECURSIVE Descending(_)
Descending(S) ==
    IF S = {} THEN <<>>
    ELSE LET m == CHOOSE x \in S : \A y \in S : y <= x
         IN <<m>> \o Descending(S \ {m})

(* processUpgrade returns: the deferred Cleanup calls run; Cleanup removes *)
(* the clone directory (os.RemoveAll("") when nothing was cloned)          *)
processUpgrade_return ==
    /\ bpc = "return"
    /\ bpc' = "done"
    /\ bcalls' = bcalls \o [k \in 1..Cardinality(deferred) |-> <<"Cleanup", Descending(deferred)[k]>>]
    /\ \E removeFails \in BOOLEAN :
        target' = [v \in Tags |->
                     IF v \in deferred /\ ~removeFails /\ target[v] = "repo"
                     THEN "absent" ELSE target[v]]
    /\ deferred' = {}
    /\ UNCHANGED <<gitcfg, rawDir, baseDir, cloneDir, bver, bidx, staging, remoteURL, bresult>>
    /\ BuildFrame

NextBuild ==
    \/ processUpgrade
    \/ processUpgrade_version
    \/ Clone
    \/ cloneRepository
    \/ cloneRepository_copy
    \/ Build
    \/ deployOperator
    \/ execUpgradeTest
    \/ processUpgrade_return

SpecBuild == InitPrepare /\ [][NextBuild]_vars

(* NewGitManager applied to every path name *)
NextSanitize == NewGitManager(Strings, {NoGit})

SpecSanitize == InitPrepare /\ [][NextSanitize]_vars

(* ============ kubeconfig (cmd/upgrade_command.go, pkg/exec) ============= *)

KubeFrame == UNCHANGED <<cluster, immediate, cancelled, cancelAt, prep, build, pc, path, idx, exit,
                         locals, verHist, runHist>>

(* paths of kubeconfig files, "" for a flag or variable that is not set *)
KubePaths == {"", "/a/config", "/b/config"}
Homes == {"", "/home/u"}

(* filepath.Join(os.Getenv("HOME"), ".kube", "config") *)
DefaultKubeconfig(home) == IF home = "" THEN ".kube/config" ELSE home \o "/.kube/config"

(* the command starts: the --kubeconfig flag as parsed, and the environment *)
(* of the process                                                           *)
AddFlags ==
    /\ kube.pc = "idle"
    /\ \E flag \in KubePaths, env \in KubePaths, home \in Homes :
        kube' = [kube EXCEPT !.pc = "getKubeconfig", !.kubeconfig = flag, !.env = env, !.home = home]
    /\ KubeFrame

(* getKubeconfig: the flag, else KUBECONFIG, else the default; KUBECONFIG   *)
(* is set to the result when it is empty                                    *)
getKubeconfig ==
    /\ kube.pc = "getKubeconfig"
    /\ LET resolved == IF kube.kubeconfig # "" THEN kube.kubeconfig
                       ELSE IF kube.env # "" THEN kube.env
                       ELSE DefaultKubeconfig(kube.home)
       IN kube' = [kube EXCEPT !.pc = "loadKubeConfig",
                               !.kubeconfig = resolved,
                               !.env = IF kube.env = "" THEN resolved ELSE kube.env]
    /\ KubeFrame

(* loadKubeConfig: clientcmd.BuildConfigFromFlags("", kubeconfig) *)
loadKubeConfig ==
    /\ kube.pc = "loadKubeConfig"
    /\ kube' = [kube EXCEPT !.pc = "RunCommand", !.loaded = kube.kubeconfig]
    /\ KubeFrame

(* RunCommand: runCmd.Env = os.Environ(), no variable of its own added *)
RunCommand ==
    /\ kube.pc = "RunCommand"
    /\ kube' = [kube EXCEPT !.pc = "done", !.child = kube.env]
    /\ KubeFrame

NextKubeconfig ==
    \/ AddFlags
    \/ getKubeconfig
    \/ loadKubeConfig
    \/ RunCommand

SpecKubeconfig == Init /\ [][NextKubeconfig]_vars

(* ============================ properties =============================== *)

InTests(p, i) == \E k \in 1..Len(tests) : tests[k] = <<p, i>>
InstallCalls == {<<"Delete", "subscription">>, <<"Delete", "csv">>, <<"Create", "subscription">>}

(* the number of stages that must have been reached before the control    *)
(* flow may stand at a position                                           *)
StagesBefore(l) ==
    CASE l = "waitArtifactVersionPresent" -> 1
      [] l = "waitPackageManifest" -> 2
      [] l \in {"deleteResource_subscription", "deleteResource_wait_subscription",
                "deleteResource_csv", "deleteResource_wait_csv",
                "createSubscription", "createSubscription_attempt"} -> 3
      [] l = "waitInstallPlan" -> 4
      [] l \in {"getInstallPlan", "approveInstallPlan"} -> 5
      [] l = "waitCSVReady" -> 6
      [] l = "execCommand" -> 7
      [] OTHER -> 0

(* C1: for one version the stages Requested, Present, Catalog, Subscribed, *)
(* PlanNamed, Approved, Succeeded are reached only in that order, no step  *)
(* of a stage is taken before the previous stage was reached, and          *)
(* UpgradeOperator has returned nil (the test command is next, or has      *)
(* run) only when all seven were reached.                                  *)
C1_StagesInOrder ==
    /\ IsPrefix(stages, StageOrder)
    /\ Len(stages) >= StagesBefore(pc)
    /\ (calls \cap InstallCalls # {} => Len(stages) >= 3)
    /\ (<<"Update", "installplan">> \in calls => Len(stages) >= 5)
    /\ (pc = "process_err" /\ errSite.fn = "execCommand" => stages = StageOrder)

C1_Witness ==
    /\ pc = "execCommand"
    /\ idx = 2
    /\ stages = StageOrder

(* C2: a Subscription Create is issued, and InstallSubscription is past    *)
(* its deletes, only when after each Delete call a Get of the old          *)
(* Subscription and a Get of the target CSV truly answered not-found; an   *)
(* InstallSubscription that timed out waiting has issued no Create.        *)
C2_CreateAfterGone ==
    /\ (createCalls > 0 => goneSeen = Kinds)
    /\ (StagesBefore(pc) > 3 => goneSeen = Kinds)
    /\ (pc \in {"createSubscription", "createSubscription_attempt"} => goneSeen = Kinds)
    /\ (\A k \in goneSeen : delOut[k] \in {"OK", "NotFound"})
    /\ (pc = "process_err" /\ errSite.cause = "Timeout"
          /\ errSite.fn \in {"deleteResource_wait_subscription", "deleteResource_wait_csv"}
        => createCalls = 0 /\ <<"Create", "subscription">> \notin calls)

C2_Witness ==
    /\ createCalls > 0
    /\ delOut["subscription"] = "OK"
    /\ delOut["csv"] = "OK"
    /\ goneSeen = Kinds

(* C3: no Subscription Create is ever issued while a Subscription of the   *)
(* operator's name (live or terminating) still exists.                     *)
C3_NoCreateOverExisting == ~createdOver

C3_Witness ==
    /\ delOut["subscription"] = "OK"
    /\ sub.state = "live"
    /\ createCalls > 0
    /\ ~createdOver

(* C4: when the Delete call of deleteResource answers not-found, the       *)
(* deleteResource does not fail on it: InstallSubscription can then fail   *)
(* in that deleteResource only on a failing Get of the wait.               *)
C4_DeleteNotFoundTolerated ==
    \A k \in Kinds :
        (delOut[k] = "NotFound" /\ pc = "process_err")
        => /\ errSite.fn # "deleteResource_" \o k
           /\ (errSite.fn = "deleteResource_wait_" \o k => errSite.cause = "Error")

C4_Witness ==
    /\ delOut["subscription"] = "NotFound"
    /\ delOut["csv"] = "NotFound"
    /\ sub.state = "live"
    /\ "Subscribed" \in {stages[k] : k \in 1..Len(stages)}

(* C5: createSubscription issues at most 3 Subscription Creates; after a   *)
(* success at attempt k exactly k were issued; after a failure of all      *)
(* attempts exactly 3 were issued; it has slept 1s after the first failure *)
(* and 2s after the second, and never after the third.                     *)
C5_ThreeAttempts ==
    /\ createCalls <= 3
    /\ IsPrefix(sleeps, <<1, 2>>)
    /\ (pc = "createSubscription_attempt"
        => createCalls = attempt - 1 /\ Len(sleeps) = attempt - 1)
    /\ (Len(stages) >= 4
        => createCalls = attempt /\ Len(sleeps) = attempt - 1)
    /\ (pc = "process_err" /\ errSite.fn = "createSubscription" /\ errSite.cause # "NamespaceError"
        => createCalls = 3 /\ sleeps = <<1, 2>>)

C5_Witness ==
    /\ pc = "process_err"
    /\ errSite.fn = "createSubscription"
    /\ createCalls = 3
    /\ sleeps = <<1, 2>>

(* C6: as long as no poll has observed the BundleVersion Present, no       *)
(* Subscription or CSV is deleted, no Subscription is created and no test  *)
(* runs for the version; the wait makes at most MaxPolls evaluations and   *)
(* then returns the timeout error.                                         *)
C6_NoPresentNoInstall ==
    /\ (Len(stages) < 2
        => /\ calls \cap InstallCalls = {}
           /\ createCalls = 0
           /\ pc # "execCommand"
           /\ (pc # "Execute" => ~InTests(path, idx)))
    /\ (pc = "waitArtifactVersionPresent" => polls <= MaxPolls)
    /\ (pc = "process_err" /\ errSite.cause = "Timeout" /\ errSite.fn = "waitArtifactVersionPresent"
        => Len(stages) < 2 /\ polls = MaxPolls)

C6_Witness ==
    /\ pc = "process_err"
    /\ errSite = [fn |-> "waitArtifactVersionPresent", cause |-> "Timeout"]
    /\ av[Tag] = "Pending"

(* C7: a PrepareOperator call that deleted the record of its tag and       *)
(* created it again returns success only if a Get of its wait, issued      *)
(* after the re-creation, truly saw phase Present on the new record; the   *)
(* phase of the deleted record is not used.                                *)
C7_PresentAgainAfterRecreate ==
    (ppc = "prepared" /\ recreated)
    => /\ seenGen = artifactVersion.gen
       /\ artifactVersion.phase = "Present"
       /\ artifactVersion.state = "live"

C7_Witness ==
    /\ ppc = "prepared"
    /\ recreated
    /\ existing.phase = "Present"
    /\ seenGen = 2

(* C8: the command of every test invocation is the version's explicit      *)
(* testCommand when that is not empty, else the prepare default for the    *)
(* first version of the path and the upgrade default for the others.       *)
C8_TestCommandResolution ==
    lastTest.path # 0 =>
        lastTest.cmd = IF lastTest.explicit # "" THEN lastTest.explicit
                       ELSE IF lastTest.idx = 1 THEN "REPO=allure make prepare"
                       ELSE "REPO=allure make upgrade"

C8_Witness ==
    /\ lastTest.idx = 2
    /\ lastTest.explicit = ""
    /\ lastTest.cmd = "REPO=allure make upgrade"
    /\ InTests(lastTest.path, 1)

(* C9: with immediate set, once a path has failed the run has ended with   *)
(* an error at that path: no later path was or is processed.               *)
C9_ImmediateAborts ==
    immediate =>
        \A p \in Paths :
            pathResult[p] = "failed"
            => /\ pc = "done"
               /\ exit = "error"
               /\ path = p
               /\ \A q \in Paths : q > p =>
                    /\ pathResult[q] = "none"
                    /\ \A i \in 1..PathLen : ~InTests(q, i)

C9_Witness ==
    /\ immediate
    /\ pathResult[1] = "failed"
    /\ pc = "done"
    /\ exit = "error"

(* C10: with immediate unset, paths are processed in configuration order   *)
(* and a failed path is followed by the next one: the paths that have      *)
(* returned are exactly those before the current one, and the run ends     *)
(* only when every path has been processed.                                *)
C10_ContinueAfterFailure ==
    ~immediate =>
        /\ \A p \in Paths : (pathResult[p] # "none") <=> (p < path)
        /\ (pc = "done" => \A p \in Paths : pathResult[p] \in {"ok", "failed"})
        /\ \A k \in 1..Len(tests) : \A j \in 1..Len(tests) :
              k < j => tests[k][1] <= tests[j][1]

C10_Witness ==
    /\ ~immediate
    /\ pc = "done"
    /\ pathResult[1] = "failed"
    /\ pathResult[2] = "ok"

(* C11: with immediate unset, a run in which a path failed ends with the   *)
(* error result (Execute returns an error, the process exits non-zero).    *)
C11_FailedRunEndsWithError ==
    (~immediate /\ pc = "done" /\ \E p \in Paths : pathResult[p] = "failed")
    => exit = "error"

(* C12: whatever the immediate flag, once a step of a version has failed   *)
(* (its test command truly failed, or process returned an error) nothing   *)
(* more is installed or tested on that path: the only later event of the   *)
(* path is the return of that error; and an error is never followed by the *)
(* next version of the same path.                                          *)
C12_FailureAbortsPath ==
    /\ \A k \in 1..Len(log) :
        log[k][1] \in {"testFailed", "failed"}
        => \A j \in (k + 1)..Len(log) :
              log[j][2] = log[k][2]
              => /\ log[j] = <<"failed", log[k][2], log[k][3]>>
                 /\ log[k][1] = "testFailed"
                 /\ j = k + 1
    /\ (lastTest.path # 0 /\ ~lastTest.ok /\ lastTest.path = path
        => pc = "process_err" \/ (pc = "done" /\ immediate))
    /\ (errSite # NoErr => pc \in {"process_err", "Execute", "done"})

C12_Witness ==
    /\ ~immediate
    /\ pc = "done"
    /\ \E k \in 1..Len(log) : log[k] = <<"testFailed", 1, 1>>
    /\ pathResult[2] = "ok"

C12_WitnessImmediate ==
    /\ immediate
    /\ pc = "done"
    /\ \E k \in 1..Len(log) : log[k] = <<"failed", 1, 1>>

(* the events of the log that belong to path p *)
RECURSIVE EventsOf(_, _)
EventsOf(p, s) ==
    IF s = <<>> THEN <<>>
    ELSE IF Head(s)[2] = p THEN <<Head(s)>> \o EventsOf(p, Tail(s))
    ELSE EventsOf(p, Tail(s))

(* the events of a path on which every step of the first n versions succeeds *)
RECURSIVE CleanRun(_, _)
CleanRun(p, n) ==
    IF n = 0 THEN <<>>
    ELSE CleanRun(p, n - 1) \o << <<"install", p, n>>, <<"installed", p, n>>,
                                  <<"test", p, n>>, <<"testOK", p, n>> >>

(* C13: one flow, strictly sequential: a test command starts only right    *)
(* after the install of its version has truly succeeded, the install of a  *)
(* version starts only right after the test of the previous version has    *)
(* passed (or, for a first version, at the start of the run or right after *)
(* the previous path has returned), paths are taken in order, and a path   *)
(* that returned nil has made exactly one test invocation per version, in  *)
(* version order, with no failure.                                         *)
C13_StrictlySequential ==
    /\ \A k \in 1..Len(log) :
        LET e == log[k] IN
        /\ e[1] = "installed" => k > 1 /\ log[k - 1] = <<"install", e[2], e[3]>>
        /\ e[1] = "test" => k > 1 /\ log[k - 1] = <<"installed", e[2], e[3]>>
        /\ e[1] \in {"testOK", "testFailed"} => k > 1 /\ log[k - 1] = <<"test", e[2], e[3]>>
        /\ (e[1] = "install" /\ e[3] > 1) => k > 1 /\ log[k - 1] = <<"testOK", e[2], e[3] - 1>>
        /\ (e[1] = "install" /\ e[3] = 1 /\ k > 1)
           => /\ log[k - 1][2] < e[2]
              /\ \/ log[k - 1] = <<"testOK", log[k - 1][2], PathLen>>
                 \/ log[k - 1][1] = "failed"
        /\ k > 1 => log[k - 1][2] <= e[2]
    /\ \A p \in Paths :
        pathResult[p] = "ok" => EventsOf(p, log) = CleanRun(p, PathLen)
    /\ (pc = "execCommand" => log # <<>> /\ log[Len(log)] = <<"installed", path, idx>>)

C13_Witness ==
    /\ pathResult[1] = "ok"
    /\ pathResult[2] = "ok"
    /\ pc = "done"
    /\ Len(tests) = NumPaths * PathLen

(* C14: for a version that declares a revision and a build command while   *)
(* the repository is empty, neither Clone nor Build is invoked, and the    *)
(* next pipeline call for the version is the deploy of the version as      *)
(* configured.                                                             *)
C14_PipelineSkipped ==
    (bidx # 0 /\ ~gitcfg.repository /\ bver.revision /\ bver.buildCommand)
    => \A k \in 1..Len(bcalls) :
          bcalls[k][2] = bidx => bcalls[k][1] \notin {"Clone", "Build"}

(* the commands of cloneRepository, all run and all succeeded *)
AllStepsDone(cfg) == [k \in 1..Len(GitSteps(cfg)) |-> <<GitSteps(cfg)[k], TRUE>>]

(* C15: the clone directory of a version holds repository content (whole   *)
(* or partly copied) only if every command of the clone (init, remote add, *)
(* fetch, checkout, in that order) succeeded in the temporary directory;   *)
(* after a failed command the directory is the empty one Clone created.    *)
C15_CopyOnlyAfterCheckout ==
    \A v \in Tags :
        /\ \A k \in 1..Len(staging[v]) : staging[v][k][1] = GitSteps(gitcfg)[k]
        /\ (target[v] \in {"repo", "partial"} => staging[v] = AllStepsDone(gitcfg))
        /\ ((\E k \in 1..Len(staging[v]) : ~staging[v][k][2])
            => /\ target[v] = "empty"
               /\ ~staging[v][Len(staging[v])][2]
               /\ \A j \in 1..(Len(staging[v]) - 1) : staging[v][j][2])

C15_Witness ==
    /\ Len(staging[1]) = Len(GitSteps(gitcfg))
    /\ staging[1][Len(staging[1])] = <<"checkout", FALSE>>
    /\ target[1] = "empty"
    /\ bpc = "done"
    /\ bresult = "error"

(* the set of characters the claim has sanitizePath keep *)
ClaimedAllowed(r) == r \in {"a", "7", "_", ".", "-"}
Clean(part) ==
    /\ \A k \in 1..Len(part) : ClaimedAllowed(part[k])
    /\ \A k \in 1..(Len(part) - 1) : ~(part[k] = "_" /\ part[k + 1] = "_")

(* C16: sanitizePath keeps every part made of characters of                *)
(* [0-9A-Za-z_.-] without repeated underscores as it is, and every part of *)
(* its result holds only characters of that set and no two consecutive     *)
(* underscores.                                                            *)
C16_SanitizeKeepsAllowedSet ==
    bidx # 0 =>
        /\ Len(Split(baseDir)) = Len(Split(rawDir))
        /\ \A i \in 1..Len(Split(rawDir)) :
              /\ Clean(Split(baseDir)[i])
              /\ (Clean(Split(rawDir)[i]) => Split(baseDir)[i] = Split(rawDir)[i])

(* C17: the directory NewGitManager keeps is a fixed point of              *)
(* sanitizePath: sanitizePath(sanitizePath(x)) = sanitizePath(x).          *)
C17_SanitizeIdempotent ==
    bidx # 0 =>
        /\ baseDir = sanitizePath(rawDir)
        /\ sanitizePath(baseDir) = baseDir

C17_Witness ==
    /\ bidx # 0
    /\ rawDir = <<"!", "_", "!">>
    /\ baseDir = <<"_">>

(* C18: once the context is cancelled while the reconciler stands in a     *)
(* polling wait, no further evaluation of the wait says "not yet" or       *)
(* "done": the wait returns an error at its next step, before its timeout, *)
(* and for that version no later stage is reached, no further cluster call *)
(* is made and no test is run.                                             *)
C18_CancelEndsWait ==
    (cancelled /\ cancelAt.pc \in WaitPcs)
    => /\ ~InTests(cancelAt.path, cancelAt.idx)
       /\ (path = cancelAt.path /\ idx = cancelAt.idx
           => /\ pc \in {cancelAt.pc, "process_err", "done"}
              /\ polls = cancelAt.polls
              /\ stages = cancelAt.stages
              /\ calls = cancelAt.calls
              /\ (pc # cancelAt.pc
                  => /\ errSite.fn = cancelAt.pc
                     /\ (errSite.cause = "Timeout" => cancelAt.polls = MaxPolls)))

C18_Witness ==
    /\ cancelled
    /\ cancelAt.pc = "waitCSVReady"
    /\ cancelAt.polls = 1
    /\ pc = "process_err"
    /\ errSite = [fn |-> "waitCSVReady", cause |-> "Error"]
    /\ csvs[csv] = "Succeeded"


(* the one call the code retries: the Subscription Create of createSubscription *)
RetriedCalls == {<<"Create", "subscription">>}

(* C19: no cluster call other than the Subscription Create is retried: once  *)
(* a Get, Create, Delete or Update of the current version has failed for a   *)
(* reason its caller does not tolerate, InstallArtifactVersion or            *)
(* InstallSubscription has returned the error: the installation of that      *)
(* version is over and no further cluster call is issued for it.             *)
C19_FailedCallReturnsAtOnce ==
    (failedCalls \ RetriedCalls # {}) => pc \in {"process_err", "Execute", "done"}

(* C20: while InstallArtifactVersion waits for the BundleVersion, a poll     *)
(* that finds the record absent (Get answers not-found) or in a phase other  *)
(* than Present is "not yet": the wait fails only by a Get error other than  *)
(* not-found or when the timeout has expired.                                *)
C20_AbsentIsNotYet ==
    (pc = "process_err" /\ errSite.fn = "waitArtifactVersionPresent")
    => \/ errSite.cause = "Error"
       \/ errSite.cause = "Timeout" /\ polls = MaxPolls

(* the version in hand: process is inside the loop body of a version *)
InVersion == pc \notin {"Execute", "done"}

Reached(stage) == \E k \in 1..Len(stages) : stages[k] = stage

(* C21: when a poll has observed the BundleVersion Present while its status  *)
(* carries no installed-version identifier, InstallArtifactVersion has       *)
(* returned an error: the catalog check is not started and no Subscription   *)
(* or CSV is deleted and no Subscription created for the version.            *)
C21_NoVersionNoCatalog ==
    (InVersion /\ av[Tag] = "PresentNoVersion" /\ Reached("Present"))
    => /\ pc = "process_err"
       /\ errSite = [fn |-> "InstallArtifactVersion", cause |-> "NoVersion"]
       /\ ~Reached("Catalog")
       /\ calls \cap InstallCalls = {}
       /\ <<"Create", "namespace">> \notin calls
       /\ createCalls = 0

C21_Witness ==
    /\ pc = "process_err"
    /\ av[Tag] = "PresentNoVersion"
    /\ Reached("Present")
    /\ errSite.cause = "NoVersion"

(* C22: InstallSubscription is started for an installed-version identifier  *)
(* only after a poll of the PackageManifest found a channel entry whose name *)
(* contains it; a missing PackageManifest or one without such an entry is    *)
(* "not yet", never an error of its own, and the wait makes at most MaxPolls *)
(* evaluations before InstallArtifactVersion returns the timeout error.      *)
C22_CatalogBeforeSubscription ==
    /\ (InVersion /\ (StagesBefore(pc) >= 3 \/ calls \cap InstallCalls # {} \/ createCalls > 0)
        => /\ Reached("Catalog")
           /\ pm.exists
           /\ \E e \in pm.entries : Contains(e, csv))
    /\ (pc = "waitPackageManifest" => polls <= MaxPolls /\ ~Reached("Catalog"))
    /\ (pc = "process_err" /\ errSite.fn = "waitPackageManifest"
        => /\ ~Reached("Catalog")
           /\ calls \cap InstallCalls = {}
           /\ \/ errSite.cause = "Error"
              \/ errSite.cause = "Timeout" /\ polls = MaxPolls)

(* the wait saw the PackageManifest with an entry of another version only,  *)
(* polled again and then found the entry                                    *)
C22_Witness ==
    /\ pc = "deleteResource_subscription"
    /\ idx = 2
    /\ Reached("Catalog")
    /\ Cardinality(pm.entries) = 2

C22_WitnessTimeout ==
    /\ pc = "process_err"
    /\ errSite = [fn |-> "waitPackageManifest", cause |-> "Timeout"]
    /\ pm.exists
    /\ pm.entries # {}

(* C23: when the Artifact is absent, InstallArtifactVersion returns an error *)
(* from its Get: no ArtifactVersion exists or is created, and no other       *)
(* resource is created, deleted or updated.                                  *)
C23_NoArtifactNoCreate ==
    ~artifact
    => /\ \A t \in Tags : av[t] = "absent"
       /\ ~ns
       /\ sub.state = "absent"
       /\ calls = {}
       /\ createCalls = 0
       /\ pc \in {"Execute", "InstallArtifactVersion", "process_err", "done"}
       /\ (pc = "process_err"
           => errSite.fn = "InstallArtifactVersion" /\ errSite.cause \in {"NotFound", "Error"})

C23_Witness ==
    /\ ~artifact
    /\ pc = "process_err"
    /\ errSite = [fn |-> "InstallArtifactVersion", cause |-> "NotFound"]

(* C24: createArtifactVersion issues its Create only when no ArtifactVersion *)
(* of the name exists: an existing record is awaited as it is, with no       *)
(* Create and no Delete; an absent one is created by exactly one Create.     *)
C24_ReuseExisting ==
    /\ (pc = "createArtifactVersion_Create" => av[Tag] = "absent")
    /\ errSite # [fn |-> "createArtifactVersion", cause |-> "AlreadyExists"]
    /\ <<"Delete", "artifactversion">> \notin calls
    /\ (InVersion /\ Reached("Requested") /\ <<"Create", "artifactversion">> \notin calls
        => av[Tag] # "absent")

(* C25: a tag is never awaited on a record that existed before it was       *)
(* requested: an existing ArtifactVersion is deleted and created anew, so   *)
(* the record a version waits on is one its own request created.            *)
C25_RecreatedNotReused ==
    (InVersion /\ Reached("Requested"))
    => <<"Create", "artifactversion">> \in calls

(* C26: InstallSubscription issues the Update that writes approved = true   *)
(* only for a plan it fetched not approved; for a plan fetched approved it  *)
(* goes on to the wait for the CSV without a write.                         *)
C26_ApproveOnlyUnapproved ==
    pc = "approveInstallPlan" => plans[planName] = "unapproved"

(* C27: while the Subscription's status exposes no install-plan name,       *)
(* waitInstallPlan keeps polling: no InstallPlan is fetched or approved     *)
(* unless a poll has read a name that is not empty, and when none is read   *)
(* within MaxPolls evaluations InstallSubscription returns an error.        *)
C27_NoPlanNameNoApproval ==
    /\ (InVersion /\ (pc \in {"getInstallPlan", "approveInstallPlan"}
                      \/ <<"Update", "installplan">> \in calls)
        => /\ Reached("PlanNamed")
           /\ planName # 0
           /\ sub.plan = planName)
    /\ (pc = "waitInstallPlan"
        => /\ polls <= MaxPolls
           /\ planName = 0
           /\ <<"Update", "installplan">> \notin calls)
    /\ (pc = "process_err" /\ errSite.fn = "waitInstallPlan"
        => /\ planName = 0
           /\ <<"Update", "installplan">> \notin calls
           /\ \/ errSite.cause = "Error"
              \/ errSite.cause = "Timeout" /\ polls = MaxPolls)

C27_Witness ==
    /\ pc = "process_err"
    /\ errSite = [fn |-> "waitInstallPlan", cause |-> "Timeout"]
    /\ sub.state = "live"
    /\ sub.plan = 0
    /\ \A k \in PlanIds : plans[k] # "approved"

Position(stage) == CHOOSE k \in 1..Len(stages) : stages[k] = stage

(* C28: InstallSubscription has returned success (the test command is next) *)
(* only if a poll made after the approval of the plan saw the CSV of the    *)
(* version with phase Succeeded; a missing CSV or another phase is "not     *)
(* yet", and the wait makes at most MaxPolls evaluations and then returns   *)
(* the timeout error.                                                       *)
C28_SuccessOnlyAfterSucceeded ==
    /\ (pc = "execCommand"
        => /\ Reached("Approved")
           /\ Reached("Succeeded")
           /\ Position("Approved") < Position("Succeeded")
           /\ csvs[csv] = "Succeeded")
    /\ (pc = "waitCSVReady" => polls <= MaxPolls /\ ~Reached("Succeeded"))
    /\ (pc = "process_err" /\ errSite.fn = "waitCSVReady"
        => /\ ~Reached("Succeeded")
           /\ ~InTests(path, idx)
           /\ \/ errSite.cause = "Error"
              \/ errSite.cause = "Timeout" /\ polls = MaxPolls)

C28_Witness ==
    /\ pc = "process_err"
    /\ errSite = [fn |-> "waitCSVReady", cause |-> "Timeout"]
    /\ csvs[csv] \in {"absent", "Pending"}
    /\ Reached("Approved")

C28_WitnessSuccess ==
    /\ pc = "execCommand"
    /\ idx = 2
    /\ csvs[csv] = "Succeeded"

(* C29: every wait of the reconciler is bounded: none makes more than        *)
(* MaxPolls "not yet" evaluations; when the awaited condition has not become *)
(* true by then, the operation returns an error instead of polling on.       *)
C29_EveryWaitBounded ==
    /\ polls <= MaxPolls
    /\ ppolls <= MaxPolls
    /\ attempt <= MaxAttempts + 1

(* C30: when the context is cancelled while createSubscription waits        *)
(* between two attempts (one Create has failed, the next is not yet issued) *)
(* no further Create of the Subscription is issued for the version.         *)
C30_CancelEndsBackoff ==
    (/\ cancelled
     /\ cancelAt.pc = "createSubscription_attempt"
     /\ cancelAt.attempt >= 2
     /\ InVersion
     /\ path = cancelAt.path
     /\ idx = cancelAt.idx)
    => createCalls = cancelAt.createCalls

(* dir is the directory base with one element added that is made of         *)
(* characters of [0-9A-Za-z_.-] and is not "." or ".."                      *)
OneNameUnder(base, dir) ==
    LET b == Split(filepathClean(base))
        d == Split(dir)
    IN /\ Len(d) = Len(b) + 1
       /\ \A k \in 1..Len(b) : d[k] = b[k]
       /\ d[Len(d)] \notin {<<>>, <<".">>, <<".", ".">>}
       /\ \A k \in 1..Len(d[Len(d)]) : ClaimedAllowed(d[Len(d)][k])

(* C31: the directory Clone removes and populates for a version is the base *)
(* directory with one sanitized name added: whatever the version name, it   *)
(* lies inside the base directory.                                          *)
C31_CloneDirInsideBase ==
    cloneDir # <<>> => OneNameUnder(baseDir, cloneDir)

(* C32: the URL given to git remote add carries the credentials exactly     *)
(* when both the username and the password are set; when either is empty it *)
(* is the configured repository URL.                                        *)
C32_CredentialsOnlyWhenBoth ==
    remoteURL # "none"
    => /\ (remoteURL = "withCredentials") = (gitcfg.username /\ gitcfg.password)
       /\ (remoteURL = "plain") = ~(gitcfg.username /\ gitcfg.password)
       /\ \E v \in Tags : \E k \in 1..Len(staging[v]) : staging[v][k][1] = "remote"

C32_Witness ==
    /\ remoteURL = "plain"
    /\ gitcfg.username
    /\ ~gitcfg.password
    /\ target[bidx] = "repo"

C32_WitnessBoth ==
    /\ remoteURL = "withCredentials"
    /\ target[bidx] = "repo"

C34_ArtifactIdempotent ==
    artifactWrites.found # "" =>
        /\ artifactWrites.found = "absent" => artifactWrites.ops = <<"Create">>
        /\ artifactWrites.found = "same" => artifactWrites.ops = <<>>
        /\ artifactWrites.found = "other" => artifactWrites.ops = <<"Update">>


(* ---------------------------------------------------------------------- *)
(* the version's test command has run and passed *)
TestPassed(v) ==
    /\ \E k \in 1..Len(bcalls) : bcalls[k] = <<"execUpgradeTest", v>>
    /\ v < bidx \/ (v = bidx /\ bresult = "ok")

(* C35: when cleanup is configured, Cleanup is invoked for a version once  *)
(* that version's steps have completed (by the time processUpgrade has     *)
(* returned); Cleanup is never invoked when cleanup is not configured, and *)
(* never before the test command of that version has finished.             *)
C35_CleanupAfterTest ==
    /\ \A k \in 1..Len(bcalls) :
         bcalls[k][1] = "Cleanup" =>
            /\ gitcfg.cleanup
            /\ \E j \in 1..(k - 1) : bcalls[j] = <<"execUpgradeTest", bcalls[k][2]>>
    /\ (bpc = "done" /\ gitcfg.cleanup) =>
         \A v \in Tags : TestPassed(v) =>
            \E k \in 1..Len(bcalls) : bcalls[k] = <<"Cleanup", v>>

C35_Witness ==
    /\ bpc = "done"
    /\ gitcfg.cleanup
    /\ \E k \in 1..Len(bcalls) : bcalls[k] = <<"Cleanup", 1>>
    /\ \E k \in 1..Len(bcalls) : bcalls[k] = <<"Cleanup", 2>>

C35_WitnessNotConfigured ==
    /\ bpc = "done"
    /\ ~gitcfg.cleanup
    /\ TestPassed(1)


(* ---------------------------------------------------------------------- *)
(* the writes InstallSubscription issues to the cluster *)
InstallWrites ==
    {<<"Delete", "subscription">>, <<"Delete", "csv">>, <<"Create", "namespace">>,
     <<"Create", "subscription">>, <<"Update", "installplan">>}

(* C36: InstallSubscription called with an empty installed-version         *)
(* identifier returns an error before any delete, create or update: no     *)
(* write of InstallSubscription is ever issued while the identifier is     *)
(* empty, and the call has ended with the error and no write at all.       *)
C36_EmptyCSVNoWrite ==
    /\ csv = <<>> => calls \cap InstallWrites = {}
    /\ (pc = "process_err" /\ errSite.fn = "InstallSubscription") =>
          /\ errSite.cause = "EmptyCSV"
          /\ csv = <<>>
          /\ calls = {}
          /\ \A k \in Kinds : delOut[k] = "none"

C36_Witness ==
    /\ pc = "process_err"
    /\ errSite = [fn |-> "InstallSubscription", cause |-> "EmptyCSV"]
    /\ sub.state # "absent"
    /\ \E t \in Tags : csvs[CSVOf(t)] # "absent"


(* ---------------------------------------------------------------------- *)
(* C37: InstallSubscription deletes only the Subscription named after the  *)
(* operator and the CSV named by the target installed-version identifier:  *)
(* whenever a CSV starts terminating it is the CSV of the version being    *)
(* installed and the step is the Delete of InstallSubscription, and the    *)
(* Subscription starts terminating only in the Delete of the Subscription; *)
(* every other CSV is as it was after each step of the reconciler.         *)
C37_OnlyTargetDeleted ==
    [][/\ \A c \in CSVNames :
            (csvs[c] # "terminating" /\ csvs'[c] = "terminating") =>
                (c = CSVOf(Tag) /\ pc = "deleteResource_csv")
       /\ (sub.state # "terminating" /\ sub'.state = "terminating") =>
                pc = "deleteResource_subscription"
       /\ pc # pc' =>
            \A c \in CSVNames : c # CSVOf(Tag) => csvs'[c] = csvs[c]]_vars

C37_Witness ==
    /\ pc = "deleteResource_wait_csv"
    /\ delOut["csv"] = "OK"
    /\ csvs[CSVOf(Tag)] = "terminating"
    /\ \E c \in CSVNames : c # CSVOf(Tag) /\ csvs[c] = "Succeeded"


(* ---------------------------------------------------------------------- *)
(* C38: the InstallPlan that InstallSubscription approves is the one named *)
(* in the status of the Subscription created in the same invocation: in    *)
(* every step that makes a plan approved, the Subscription of the cluster  *)
(* is the one this invocation created for the version's CSV and the plan   *)
(* is the one its status names, never a plan left over from the            *)
(* Subscription that was deleted.                                          *)
C38_ApprovesOwnPlan ==
    [][\A k \in PlanIds :
          (plans[k] # "approved" /\ plans'[k] = "approved") =>
             /\ Reached("Subscribed")
             /\ sub.state = "live"
             /\ sub.csv = CSVOf(Tag)
             /\ sub.plan = k]_vars

(* a second Subscription of the run has its own plan approved while the     *)
(* plan of the deleted one is still there                                   *)
C38_Witness ==
    /\ Reached("Approved")
    /\ InVersion
    /\ sub.state = "live"
    /\ sub.plan > 1
    /\ plans[sub.plan] = "approved"
    /\ plans[1] # "absent"

====
